---- MODULE Spec2Model ----
(***************************************************************************)
(* Geohash codec of geohash.py: encode, decode, _get_cell_size and         *)
(* get_neighbors of class Geohash.                                         *)
(*                                                                         *)
(* Coordinates are fixed-point numbers: the integer v stands for           *)
(* v / 2^FracBits degrees.  Every value the codec computes from such an    *)
(* input (bisection midpoints, cell centres, cell sizes) is a multiple of  *)
(* 45 / 2^k degrees with k <= FracBits, so the float divisions of the      *)
(* source are exact and are modelled by exact integer division.            *)
(***************************************************************************)
EXTENDS Integers, Sequences, FiniteSets

VARIABLES precision, call, arg, result

vars == <<precision, call, arg, result>>

\* ---------------------------------------------------------------- bounds
\* Largest precision of a codec of the model (the source allows up to 12).
MaxPrecision == 2
\* Input coordinates lie on a grid of 2^GridBits steps per axis.
GridBits == 6
\* Input coordinates may lie up to this many grid steps outside the range.
MaxOutside == 1

\* Fractional bits of the fixed-point representation of degrees.
FracBits == GridBits + (5 * MaxPrecision) \div 2

Unit == 2 ^ FracBits

\* The fixed-point value of d degrees.
Deg(d) == d * Unit

\* x / 2 of the source, on values where it is exact.
Half(x) == x \div 2

Max(a, b) == IF a >= b THEN a ELSE b

Abs(x) == IF x < 0 THEN 0 - x ELSE x

\* ---------------------------------------------------------------- alphabet
\* Mutant of BASE32: the base32hex alphabet, which has a, i, l and o.
BASE32_hex == << "0", "1", "2", "3", "4", "5", "6", "7", "8", "9", "a", "b",
                 "c", "d", "e", "f", "g", "h", "i", "j", "k", "l", "m", "n",
                 "o", "p", "q", "r", "s", "t", "u", "v" >>

BASE32 == << "0", "1", "2", "3", "4", "5", "6", "7", "8", "9", "b", "c",
             "d", "e", "f", "g", "h", "j", "k", "m", "n", "p", "q", "r",
             "s", "t", "u", "v", "w", "x", "y", "z" >>

\* c in self.BASE32
InBASE32(c) == \E k \in 1..Len(BASE32) : BASE32[k] = c

\* self.BASE32.index(char), 0-based
BASE32Index(c) == (CHOOSE k \in 1..Len(BASE32) : BASE32[k] = c) - 1

\* The ValueError raised by a call, with the kind of its message.
Raise(kind) == [ok |-> FALSE, error |-> kind]

\* Geohash.__init__: the precisions a codec can be built with.
ValidPrecision(p) == 1 <= p /\ p <= 12

\* ---------------------------------------------------------------- encode
RECURSIVE Bisect_no_narrowing(_, _, _, _)
\* Mutant of Bisect: the 1-branch forgets lo = mid.
Bisect_no_narrowing(value, lo, hi, n) ==
    IF n = 0 THEN << >>
    ELSE LET mid == Half(lo + hi)
         IN  IF value > mid
             THEN <<1>> \o Bisect_no_narrowing(value, lo, hi, n - 1)
             ELSE <<0>> \o Bisect_no_narrowing(value, lo, mid, n - 1)

RECURSIVE Bisect(_, _, _, _)
\* The loop of _encode_bitstream.
Bisect(value, lo, hi, n) ==
    IF n = 0 THEN << >>
    ELSE LET mid == Half(lo + hi)
         IN  IF value > mid
             THEN <<1>> \o Bisect(value, mid, hi, n - 1)
             ELSE <<0>> \o Bisect(value, lo, mid, n - 1)

\* Mutant of _encode_bitstream: the bounds are exclusive.
_encode_bitstream_exclusive(value, lo, hi, bit_length) ==
    IF ~(lo < value /\ value < hi)
    THEN Raise("range")
    ELSE [ok |-> TRUE, bits |-> Bisect(value, lo, hi, bit_length)]

_encode_bitstream(value, lo, hi, bit_length) ==
    IF ~(lo <= value /\ value <= hi)
    THEN Raise("range")
    ELSE [ok |-> TRUE, bits |-> Bisect(value, lo, hi, bit_length)]

RECURSIVE Interleave_lat_first(_, _, _, _)
\* Mutant of Interleave: the latitude bit is appended before the longitude bit.
Interleave_lat_first(lon_stream, lat_stream, i, n) ==
    IF i >= n THEN << >>
    ELSE (IF i < Len(lat_stream) THEN <<lat_stream[i + 1]>> ELSE << >>)
         \o (IF i < Len(lon_stream) THEN <<lon_stream[i + 1]>> ELSE << >>)
         \o Interleave_lat_first(lon_stream, lat_stream, i + 1, n)

RECURSIVE Interleave(_, _, _, _)
\* The interleaving loop of encode, from index i (0-based) to n - 1.
Interleave(lon_stream, lat_stream, i, n) ==
    IF i >= n THEN << >>
    ELSE (IF i < Len(lon_stream) THEN <<lon_stream[i + 1]>> ELSE << >>)
         \o (IF i < Len(lat_stream) THEN <<lat_stream[i + 1]>> ELSE << >>)
         \o Interleave(lon_stream, lat_stream, i + 1, n)

\* geohash_bits[i : i + 5], i 0-based, padded with zeros to 5 bits
Chunk(bits, i) ==
    [j \in 1..5 |-> IF i + j <= Len(bits) THEN bits[i + j] ELSE 0]

\* sum(bit << (4 - j) for j, bit in enumerate(chunk))
ChunkValue(chunk) ==
    chunk[1] * 16 + chunk[2] * 8 + chunk[3] * 4 + chunk[4] * 2 + chunk[5]

\* The base32 loop of encode: one character per i in range(0, bit_length, 5).
ToBase32(bits, bit_length) ==
    [k \in 1..((bit_length + 4) \div 5) |->
        BASE32[ChunkValue(Chunk(bits, 5 * (k - 1))) + 1]]

encode(p, lat, lon) ==
    LET bit_length == p * 5
        lat_bits   == bit_length \div 2
        lon_bits   == bit_length - lat_bits
        lat_stream == _encode_bitstream(lat, Deg(-90), Deg(90), lat_bits)
        lon_stream == _encode_bitstream(lon, Deg(-180), Deg(180), lon_bits)
    IN  IF ~lat_stream.ok THEN lat_stream
        ELSE IF ~lon_stream.ok THEN lon_stream
        ELSE [ok |-> TRUE,
              code |-> ToBase32(Interleave(lon_stream.bits, lat_stream.bits,
                                           0, Max(lat_bits, lon_bits)),
                                bit_length)]

\* ---------------------------------------------------------------- decode
\* (bitstream >> k) & 1
BitAt(bitstream, k) == (bitstream \div (2 ^ k)) % 2

RECURSIVE DecodeLoop(_, _, _, _, _)
\* The loop of _decode_bitstream from index i on: the final interval.
DecodeLoop(bitstream, bit_count, i, min_val, max_val) ==
    IF i >= bit_count THEN <<min_val, max_val>>
    ELSE LET mid == Half(min_val + max_val)
         IN  IF BitAt(bitstream, bit_count - 1 - i) = 1
             THEN DecodeLoop(bitstream, bit_count, i + 1, mid, max_val)
             ELSE DecodeLoop(bitstream, bit_count, i + 1, min_val, mid)

\* Mutant of _decode_bitstream: the lower end of the final interval is
\* returned instead of its midpoint.
_decode_bitstream_lower_end(bitstream, bit_count, min_val, max_val) ==
    DecodeLoop(bitstream, bit_count, 0, min_val, max_val)[1]

_decode_bitstream(bitstream, bit_count, min_val, max_val) ==
    LET final == DecodeLoop(bitstream, bit_count, 0, min_val, max_val)
    IN  Half(final[1] + final[2])

RECURSIVE FromBase32(_, _)
\* geohash_value after the first n characters of geohash.
FromBase32(geohash, n) ==
    IF n = 0 THEN 0
    ELSE FromBase32(geohash, n - 1) * 32 + BASE32Index(geohash[n])

RECURSIVE Deinterleave(_, _, _, _)
\* The deinterleaving loop of decode after i iterations, for the bits of
\* the given parity (0: lon_stream, 1: lat_stream).
Deinterleave(geohash_value, bit_length, i, parity) ==
    IF i = 0 THEN 0
    ELSE LET prev == Deinterleave(geohash_value, bit_length, i - 1, parity)
             bit  == BitAt(geohash_value, bit_length - 1 - (i - 1))
         IN  IF (i - 1) % 2 = parity THEN prev * 2 + bit ELSE prev

\* decode once its two checks have passed: lines 79 to 99.
DecodeValid(p, geohash) ==
    LET bit_length    == p * 5
        lat_bits      == bit_length \div 2
        lon_bits      == bit_length - lat_bits
        geohash_value == FromBase32(geohash, Len(geohash))
        lon_stream    == Deinterleave(geohash_value, bit_length, bit_length, 0)
        lat_stream    == Deinterleave(geohash_value, bit_length, bit_length, 1)
    IN  [ok  |-> TRUE,
         lat |-> _decode_bitstream(lat_stream, lat_bits, Deg(-90), Deg(90)),
         lon |-> _decode_bitstream(lon_stream, lon_bits, Deg(-180), Deg(180))]

\* Mutant of decode: the length check is missing.
decode_no_length_check(p, geohash) ==
    IF ~(\A k \in 1..Len(geohash) : InBASE32(geohash[k]))
    THEN Raise("alphabet")
    ELSE DecodeValid(p, geohash)

\* Mutant of decode: the alphabet check comes before the length check.
decode_alphabet_first(p, geohash) ==
    IF ~(\A k \in 1..Len(geohash) : InBASE32(geohash[k]))
    THEN Raise("alphabet")
    ELSE IF Len(geohash) # p THEN Raise("length")
    ELSE DecodeValid(p, geohash)

decode(p, geohash) ==
    IF Len(geohash) # p THEN Raise("length")
    ELSE IF ~(\A k \in 1..Len(geohash) : InBASE32(geohash[k]))
    THEN Raise("alphabet")
    ELSE DecodeValid(p, geohash)

\* ---------------------------------------------------------------- neighbours
\* Mutant of _get_cell_size: the half-widths of the cell.
_get_cell_size_half(p) ==
    LET lat_bits == (p * 5) \div 2
        lon_bits == p * 5 - lat_bits
    IN  <<Deg(180) \div (2 ^ (lat_bits + 1)), Deg(360) \div (2 ^ (lon_bits + 1))>>

\* (lat_err, lon_err)
_get_cell_size(p) ==
    LET lat_bits == (p * 5) \div 2
        lon_bits == p * 5 - lat_bits
    IN  <<Deg(180) \div (2 ^ lat_bits), Deg(360) \div (2 ^ lon_bits)>>

\* The keys of the directions dict, in insertion order.
DirectionNames == <<"n", "s", "e", "w", "ne", "se", "nw", "sw">>

\* The directions dict; each entry is the pair of signs of (dlat, dlon).
directions ==
    [d \in {DirectionNames[k] : k \in 1..Len(DirectionNames)} |->
        CASE d = "n"  -> <<1, 0>>
          [] d = "s"  -> <<-1, 0>>
          [] d = "e"  -> <<0, 1>>
          [] d = "w"  -> <<0, -1>>
          [] d = "ne" -> <<1, 1>>
          [] d = "se" -> <<-1, 1>>
          [] d = "nw" -> <<1, -1>>
          [] d = "sw" -> <<-1, -1>>]

\* Mutant of ClampLat: latitudes past a pole wrap to the other pole.
ClampLat_wrapping(nlat) ==
    IF nlat > Deg(90) THEN nlat - Deg(180)
    ELSE IF nlat < Deg(-90) THEN nlat + Deg(180)
    ELSE nlat

\* handle latitude bounds
ClampLat(nlat) ==
    IF nlat > Deg(90) THEN Deg(90)
    ELSE IF nlat < Deg(-90) THEN Deg(-90)
    ELSE nlat

\* Mutant of WrapLon: longitudes past the antimeridian saturate.
WrapLon_clamping(nlon) ==
    IF nlon > Deg(180) THEN Deg(180)
    ELSE IF nlon < Deg(-180) THEN Deg(-180)
    ELSE nlon

\* handle longitude wrapping
WrapLon(nlon) ==
    IF nlon > Deg(180) THEN nlon - Deg(360)
    ELSE IF nlon < Deg(-180) THEN nlon + Deg(360)
    ELSE nlon

\* The body of the loop of get_neighbors for one direction.
Neighbor(p, center, size, d) ==
    encode(p, ClampLat(center.lat + directions[d][1] * size[1]),
              WrapLon(center.lon + directions[d][2] * size[2]))

get_neighbors(p, geohash) ==
    LET center == decode(p, geohash)
    IN  IF ~center.ok THEN center
        ELSE LET size == _get_cell_size(Len(geohash))
                 each == [d \in DOMAIN directions |-> Neighbor(p, center, size, d)]
                 bad  == {k \in 1..Len(DirectionNames) : ~each[DirectionNames[k]].ok}
             IN  IF bad # {}
                 THEN each[DirectionNames[CHOOSE k \in bad : \A m \in bad : k <= m]]
                 ELSE [ok |-> TRUE,
                       neighbors |-> [d \in DOMAIN directions |-> each[d].code]]

\* ---------------------------------------------------------------- inputs
GridStepLat == Deg(180) \div (2 ^ GridBits)

GridStepLon == Deg(360) \div (2 ^ GridBits)

\* Latitudes given to encode: the grid over [-90, 90] and beyond it.
LatInputs ==
    {Deg(-90) + k * GridStepLat : k \in (0 - MaxOutside)..(2 ^ GridBits + MaxOutside)}

\* Longitudes given to encode: the grid over [-180, 180] and beyond it.
LonInputs ==
    {Deg(-180) + k * GridStepLon : k \in (0 - MaxOutside)..(2 ^ GridBits + MaxOutside)}

\* Characters of the codes given to decode and get_neighbors.
InputChars == {BASE32[k] : k \in 1..Len(BASE32)} \cup {"a"}

\* Codes given to decode and get_neighbors: every length up to MaxPrecision.
CodeInputs == UNION {[1..n -> InputChars] : n \in 0..MaxPrecision}

None == [ok |-> FALSE, error |-> "none"]

\* ---------------------------------------------------------------- machine
Init ==
    /\ precision \in {p \in 1..MaxPrecision : ValidPrecision(p)}
    /\ call = "idle"
    /\ result = None
    /\ \/ \E lat \in LatInputs, lon \in LonInputs : arg = [lat |-> lat, lon |-> lon]
       \/ \E c \in CodeInputs : arg = [code |-> c]

Encode ==
    /\ call = "idle"
    /\ "lat" \in DOMAIN arg
    /\ call' = "encode"
    /\ result' = encode(precision, arg.lat, arg.lon)
    /\ UNCHANGED <<precision, arg>>

Decode ==
    /\ call = "idle"
    /\ "code" \in DOMAIN arg
    /\ call' = "decode"
    /\ result' = decode(precision, arg.code)
    /\ UNCHANGED <<precision, arg>>

GetNeighbors ==
    /\ call = "idle"
    /\ "code" \in DOMAIN arg
    /\ call' = "get_neighbors"
    /\ result' = get_neighbors(precision, arg.code)
    /\ UNCHANGED <<precision, arg>>

Next == Encode \/ Decode \/ GetNeighbors

Spec == Init /\ [][Next]_vars

\* ---------------------------------------------------------------- properties
\* The 32 symbols of the geohash alphabet, as the specification lists them.
Alphabet == {"0", "1", "2", "3", "4", "5", "6", "7", "8", "9", "b", "c",
             "d", "e", "f", "g", "h", "j", "k", "m", "n", "p", "q", "r",
             "s", "t", "u", "v", "w", "x", "y", "z"}

Excluded == {"a", "i", "l", "o"}

\* A code of exactly n alphabet characters.
IsCode(c, n) ==
    /\ Len(c) = n
    /\ \A k \in 1..Len(c) : c[k] \in Alphabet /\ c[k] \notin Excluded

Keys == {"n", "s", "e", "w", "ne", "nw", "se", "sw"}

\* The state after get_neighbors on an alphabet-valid code of the codec's length.
NeighborsOfValidCode ==
    /\ call = "get_neighbors"
    /\ IsCode(arg.code, precision)

LatHeight == _get_cell_size(precision)[1]

LonWidth == _get_cell_size(precision)[2]

\* C1: after encode succeeds on a codec of precision p, decoding the code
\* gives a latitude within 180 / 2^(5p // 2) and a longitude within
\* 360 / 2^(5p - 5p // 2) of the encoded coordinate.
C1_RoundTripBound ==
    (call = "encode" /\ result.ok) =>
        LET d == decode(precision, result.code)
        IN  /\ d.ok
            /\ Abs(d.lat - arg.lat) <= Deg(180) \div (2 ^ ((5 * precision) \div 2))
            /\ Abs(d.lon - arg.lon)
                  <= Deg(360) \div (2 ^ (5 * precision - (5 * precision) \div 2))
            /\ Abs(d.lat - arg.lat) <= LatHeight
            /\ Abs(d.lon - arg.lon) <= LonWidth

\* C1 witness: encode has succeeded on the corner (90, 180), which no
\* decoded centre equals.
C1_Witness ==
    /\ call = "encode"
    /\ result.ok
    /\ arg.lat = Deg(90)
    /\ arg.lon = Deg(180)
    /\ decode(precision, result.code).lat # arg.lat

\* C2: re-encoding the decoded centre of a code gives the code back, both
\* for the code encode returned and for any valid code given to decode.
C2_InverseConsistency ==
    /\ (call = "encode" /\ result.ok) =>
          LET d == decode(precision, result.code)
          IN  d.ok /\ encode(precision, d.lat, d.lon) = result
    /\ (call = "decode" /\ IsCode(arg.code, precision)) =>
          /\ result.ok
          /\ encode(precision, result.lat, result.lon) = [ok |-> TRUE, code |-> arg.code]

\* C2 witness: decode has succeeded on a valid code of the longest precision.
C2_Witness ==
    /\ call = "decode"
    /\ precision = MaxPrecision
    /\ IsCode(arg.code, precision)
    /\ result.ok

\* C3 as stated: get_neighbors on an alphabet-valid code of any length L in
\* 1..12 returns the 8 neighbour codes, each of length L.
C3_AnyLengthOriginal ==
    (/\ call = "get_neighbors"
     /\ Len(arg.code) \in 1..12
     /\ IsCode(arg.code, Len(arg.code))) =>
        /\ result.ok
        /\ DOMAIN result.neighbors = Keys
        /\ \A d \in Keys : Len(result.neighbors[d]) = Len(arg.code)

\* C3 amended: get_neighbors on an alphabet-valid code of length L returns
\* the 8 neighbour codes, each of the codec's length, when L is the codec's
\* precision, and fails with the length error of decode otherwise.
C3_OnlyOwnLength ==
    (/\ call = "get_neighbors"
     /\ Len(arg.code) \in 1..12
     /\ IsCode(arg.code, Len(arg.code))) =>
        IF Len(arg.code) = precision
        THEN /\ result.ok
             /\ DOMAIN result.neighbors = Keys
             /\ \A d \in Keys : Len(result.neighbors[d]) = precision
        ELSE result = [ok |-> FALSE, error |-> "length"]

\* C3 witness: get_neighbors has failed on a valid code shorter than the
\* codec's precision.
C3_Witness ==
    /\ call = "get_neighbors"
    /\ Len(arg.code) \in 1..12
    /\ Len(arg.code) < precision
    /\ IsCode(arg.code, Len(arg.code))
    /\ ~result.ok

\* The cell of the valid code given to get_neighbors is in the top row.
TopRow == decode(precision, arg.code).lat + LatHeight > Deg(90)

BottomRow == decode(precision, arg.code).lat - LatHeight < Deg(-90)

\* C4 as stated: the n neighbour of a top-row cell decodes to latitude 90.
C4_PoleClampOriginal ==
    (NeighborsOfValidCode /\ TopRow) =>
        /\ result.ok
        /\ decode(precision, result.neighbors["n"]).lat = Deg(90)

\* C4 amended: the n neighbour of a top-row cell is the cell itself; it
\* decodes to the top row's centre, 90 minus half a cell height, which is
\* not beyond 90.
C4_PoleClamp ==
    (NeighborsOfValidCode /\ TopRow) =>
        /\ result.ok
        /\ result.neighbors["n"] = arg.code
        /\ decode(precision, result.neighbors["n"]).lat = Deg(90) - LatHeight \div 2
        /\ decode(precision, result.neighbors["n"]).lat < Deg(90)

\* C4 witness: get_neighbors has run on a top-row cell.
C4_Witness ==
    /\ NeighborsOfValidCode
    /\ TopRow
    /\ result.ok

\* The cell of the valid code given to get_neighbors is in the easternmost column.
EastColumn == decode(precision, arg.code).lon = Deg(180) - LonWidth \div 2

\* C5: the e neighbour of a cell of the easternmost column decodes to the
\* westernmost column's centre longitude and to the latitude of the cell.
C5_AntimeridianWrap ==
    (NeighborsOfValidCode /\ EastColumn) =>
        /\ result.ok
        /\ LET c == decode(precision, arg.code)
               e == decode(precision, result.neighbors["e"])
           IN  /\ e.ok
               /\ e.lon = Deg(-180) + LonWidth \div 2
               /\ e.lon <= Deg(180)
               /\ e.lat = c.lat

\* C5 witness: get_neighbors has run on a cell of the easternmost column.
C5_Witness ==
    /\ NeighborsOfValidCode
    /\ EastColumn
    /\ result.ok

\* C6: a code returned by encode, and each of the 8 codes returned by
\* get_neighbors on a valid code, has exactly precision characters, all of
\* the alphabet.
C6_LengthAndAlphabet ==
    /\ (call = "encode" /\ result.ok) => IsCode(result.code, precision)
    /\ NeighborsOfValidCode =>
          /\ result.ok
          /\ DOMAIN result.neighbors = Keys
          /\ \A d \in Keys : IsCode(result.neighbors[d], precision)

\* C6 witness: get_neighbors has returned neighbours of a valid code.
C6_Witness ==
    /\ NeighborsOfValidCode
    /\ result.ok
    /\ \E d \in Keys : result.neighbors[d] # arg.code

\* C7: decode returns a coordinate exactly when the code has the codec's
\* length and only alphabet characters; another length fails with the
\* length error, a bad character at the right length with the alphabet
\* error, and a failure carries no coordinate.
C7_DecodeValidation ==
    (call = "decode") =>
        /\ result.ok <=> IsCode(arg.code, precision)
        /\ result.ok => DOMAIN result = {"ok", "lat", "lon"}
        /\ Len(arg.code) # precision => result = [ok |-> FALSE, error |-> "length"]
        /\ (Len(arg.code) = precision /\ ~IsCode(arg.code, precision))
              => result = [ok |-> FALSE, error |-> "alphabet"]

\* C7 witness: decode has failed on a code of another length that also
\* has a character outside the alphabet.
C7_Witness ==
    /\ call = "decode"
    /\ Len(arg.code) # precision
    /\ \E k \in 1..Len(arg.code) : arg.code[k] = "a"
    /\ ~result.ok

OutOfRange ==
    \/ arg.lat < Deg(-90)
    \/ arg.lat > Deg(90)
    \/ arg.lon < Deg(-180)
    \/ arg.lon > Deg(180)

\* C8: encode fails with the range error exactly when the latitude is
\* outside [-90, 90] or the longitude outside [-180, 180], bounds included;
\* a failure carries no code and a success carries one.
C8_EncodeRangeCheck ==
    (call = "encode") =>
        /\ ~result.ok <=> OutOfRange
        /\ ~result.ok => result = [ok |-> FALSE, error |-> "range"]
        /\ result.ok => DOMAIN result = {"ok", "code"}

\* C8 witness: encode has succeeded on the extreme input (90, -180).
C8_Witness ==
    /\ call = "encode"
    /\ arg.lat = Deg(90)
    /\ arg.lon = Deg(-180)
    /\ result.ok

\* The signs (sy, sx) of a direction.
Sign(d) ==
    << (IF d \in {"n", "ne", "nw"} THEN 1 ELSE IF d \in {"s", "se", "sw"} THEN -1 ELSE 0),
       (IF d \in {"e", "ne", "se"} THEN 1 ELSE IF d \in {"w", "nw", "sw"} THEN -1 ELSE 0) >>

\* The single +/-360 correction.
Wrapped(x) ==
    IF x > Deg(180) THEN x - Deg(360) ELSE IF x < Deg(-180) THEN x + Deg(360) ELSE x

\* C9: for a valid code whose cell is in neither the top nor the bottom
\* row, get_neighbors returns the 8 keys, each neighbour decodes exactly to
\* the centre moved by one cell in its direction (longitude wrapped), and
\* the 8 neighbours are pairwise distinct and differ from the code.
C9_AdjacentCells ==
    (NeighborsOfValidCode /\ ~TopRow /\ ~BottomRow) =>
        /\ result.ok
        /\ DOMAIN result.neighbors = Keys
        /\ LET c == decode(precision, arg.code)
           IN  \A d \in Keys :
                  decode(precision, result.neighbors[d])
                     = [ok  |-> TRUE,
                        lat |-> c.lat + Sign(d)[1] * LatHeight,
                        lon |-> Wrapped(c.lon + Sign(d)[2] * LonWidth)]
        /\ \A d \in Keys : result.neighbors[d] # arg.code
        /\ \A d1, d2 \in Keys : d1 # d2 => result.neighbors[d1] # result.neighbors[d2]

\* C9 witness: get_neighbors has run on a cell of an inner row in the
\* westernmost column, so that three neighbours wrap.
C9_Witness ==
    /\ NeighborsOfValidCode
    /\ ~TopRow
    /\ ~BottomRow
    /\ decode(precision, arg.code).lon - LonWidth < Deg(-180)
    /\ result.ok

\* C10: the code encode returns at precision p is the first p characters
\* of the code of the same coordinate at every longer precision q.
C10_PrefixNesting ==
    (call = "encode" /\ result.ok) =>
        \A q \in (precision + 1)..MaxPrecision :
            LET longer == encode(q, arg.lat, arg.lon)
            IN  /\ longer.ok
                /\ result.code = SubSeq(longer.code, 1, precision)

\* C10 witness: encode has succeeded at a precision that has a longer one,
\* on a coordinate of the north-west quadrant.
C10_Witness ==
    /\ call = "encode"
    /\ result.ok
    /\ precision < MaxPrecision
    /\ arg.lat > 0
    /\ arg.lon < 0


====
